---- MODULE Spec2Model ----
(***************************************************************************)
(* x5parser: the crawl loop of parser/pyaterochka.rs (start_parsing) and   *)
(* the price-history store of db.rs (pyaterochka_insert_data).             *)
(*                                                                         *)
(* Strings are sequences of characters, Option<T> is <<>> (None) or <<x>>  *)
(* (Some(x)), a table with a PRIMARY KEY is a set of rows, and the         *)
(* AUTOINCREMENT price-history table is the sequence of its rows in        *)
(* insertion order.                                                        *)
(***************************************************************************)
EXTENDS Integers, Sequences, FiniteSets, TLC

VARIABLES
    stores,      \* table pyaterochka_stores (committed rows)
    products,    \* table pyaterochka_products (committed rows)
    history,     \* table pyaterochka_product_price_history, in insertion order
    log,         \* the calls of pyaterochka_insert_data made by SpecPersist's caller
    pc,          \* start_parsing: where the crawl loop stands
    pass,        \* passes over the coordinates begun so far
    sn,          \* index of the coordinate of the current iteration (from 0)
    stores_set,  \* store ids seen in the current pass
    store_info,  \* the store of the current iteration, None before it is decoded
    cn,          \* categories whose task has been spawned
    join_set,    \* the state of each category task of the current store
    joined,      \* the results of the finished tasks, in completion order
    browser,     \* the shared headless browser: "none", "open" or "closed"
    listener,    \* the Ctrl+C task: "unspawned", "waiting", "closing", "closed", "sent"
    rx,          \* TRUE once the listener has sent on the oneshot channel
    handed,      \* the persist call made for the current store, None before it
    crawls,      \* per store id: catalog crawls begun in the current pass
    afterSignal, \* store iterations begun after the listener signalled
    argv,        \* std::env::args() of the process
    config_text, \* the config file: None when unreadable, else Some(its content)
    config,      \* main's Config, None before it is loaded
    db_path,     \* db::DB_PATH, None before db::init
    cookie_files,     \* per cookie file path: None when absent, else Some(its cookies)
    headless_cookies, \* the cookies set in the headless crawling browser
    main,        \* main: "config", "parsing", "exited" or "aborted"
    exit_status, \* the exit status of the process, None while it runs
    pages,       \* pages the crawler opened in the headless browser and has not closed
    visible_url, \* page.url() of the refresh's page in the visible browser
    wait         \* the wait of one open_page call for its content element

dbvars == <<stores, products, history>>
loopvars == <<pc, pass, sn, stores_set, store_info, cn>>
taskvars == <<join_set, joined>>
sigvars == <<browser, listener, rx>>
ghostvars == <<handed, crawls, afterSignal>>
mainvars == <<argv, config_text, config, db_path, main, exit_status>>
cookievars == <<cookie_files, headless_cookies>>
envvars == <<mainvars, cookievars>>
pagevars == <<pages, visible_url, wait>>
crawlvars == <<loopvars, taskvars, sigvars, ghostvars, envvars, pagevars>>
vars == <<dbvars, log, crawlvars>>

(***************************************************************************)
(* Bounds of the model.                                                    *)
(***************************************************************************)
MaxCalls == 3      \* persist calls made by a caller of the store
MaxObs == 4        \* product observations over all those calls
MaxCatalogs == 2   \* snapshots in one persist call
NumCatalogs == 2   \* entries of MAIN_CATALOG_LIST the model crawls (17 in the source)
NumCoords == 2     \* coordinates read from the coordinates file
MaxPasses == 2     \* passes over the coordinates
MaxBrandCalls == 2 \* persist calls made by the caller that varies the brand lists
MaxPages == 5      \* pages open at once in the headless browser
MaxProductCalls == 2 \* persist calls made by the caller that varies the product attributes

None == <<>>
Some(x) == <<x>>

Max(S) == CHOOSE x \in S : \A y \in S : y <= x

Min(S) == CHOOSE x \in S : \A y \in S : x <= y

SeqsOfLen(S, lo, hi) == UNION {[1..k -> S] : k \in lo..hi}

(***************************************************************************)
(* db.rs: the statements of pyaterochka_insert_data.                       *)
(***************************************************************************)

\* str::starts_with in the place of str::contains
StartsWith(name, v) == Len(v) <= Len(name) /\ SubSeq(name, 1, Len(v)) = v

\* str::contains: v occurs in name as a contiguous substring
Contains(name, v) ==
    \E i \in 0..(Len(name) - Len(v)) : SubSeq(name, i + 1, i + Len(v)) = v

\* brand_list.iter().find(|v| p.name.contains(*v))
FindBrand(brand_list, name) ==
    LET hits == {i \in DOMAIN brand_list : Contains(name, brand_list[i])}
    IN  IF hits = {} THEN None
        ELSE Some(brand_list[CHOOSE i \in hits : \A j \in hits : i <= j])

\* INSERT OR REPLACE in the place of INSERT OR IGNORE: the row of the id is
\* rewritten by every call
InsertOrReplaceStore(st, si, now) ==
    {r \in st : r.id # si.id}
        \cup {[id |-> si.id, address |-> si.address, city |-> si.city,
                inserted_at |-> now]}

\* INSERT OR IGNORE INTO pyaterochka_stores
InsertStore(st, si, now) ==
    IF \E r \in st : r.id = si.id THEN st
    ELSE st \cup {[id |-> si.id, address |-> si.address, city |-> si.city,
                   inserted_at |-> now]}

\* the row the product statement is executed with
ProductRow(c, p) ==
    [id |-> p.id, name |-> p.name, category |-> c.info.name,
     brand |-> FindBrand(c.info.brand_list, p.name),
     rating |-> p.rating, rates_count |-> p.rates_count,
     image |-> p.image, property |-> p.property,
     updated_at |-> c.time, inserted_at |-> c.time]

\* INSERT OR IGNORE in the place of the upsert: the first row of an id stays
UpsertKeepsFirst(pt, c, p) ==
    IF \E r \in pt : r.id = p.id THEN pt ELSE pt \cup {ProductRow(c, p)}

\* INSERT INTO pyaterochka_products ... ON CONFLICT(id) DO UPDATE SET ...
UpsertProduct(pt, c, p) ==
    LET new == ProductRow(c, p)
    IN  IF \E r \in pt : r.id = p.id
        THEN {IF r.id = p.id THEN [new EXCEPT !.inserted_at = r.inserted_at] ELSE r
              : r \in pt}
        ELSE pt \cup {new}

\* SELECT inserted_at ... WHERE store_id = ?1 AND product_id = ?2
\* ORDER BY inserted_at DESC LIMIT 1
LatestInsertedAt(h, sid, pid) ==
    LET ts == {h[i].inserted_at : i \in {j \in DOMAIN h :
                    h[j].store_id = sid /\ h[j].product_id = pid}}
    IN  IF ts = {} THEN None ELSE Some(Max(ts))

\* the subquery without its comparison of the prices: no row ever matches
HistoryExistsNever(h, sid, pid, price, card_price) == FALSE

\* the EXISTS subquery of the price-history statement
HistoryExists(h, sid, pid, price, card_price) ==
    LET latest == LatestInsertedAt(h, sid, pid)
    IN  /\ latest # None
        /\ \E i \in DOMAIN h :
              /\ h[i].store_id = sid
              /\ h[i].product_id = pid
              /\ h[i].inserted_at = latest[1]
              /\ h[i].price = price
              /\ h[i].card_price = card_price

\* a statement that keeps one row per (store, product): the new row replaces
\* the rows of its pair
InsertHistoryReplacing(h, sid, c, p) ==
    IF HistoryExists(h, sid, p.id, p.price, p.card_price) THEN h
    ELSE Append(SelectSeq(h, LAMBDA r : ~(r.store_id = sid /\ r.product_id = p.id)),
                [store_id |-> sid, product_id |-> p.id, price |-> p.price,
                 card_price |-> p.card_price, inserted_at |-> c.time])

\* INSERT INTO pyaterochka_product_price_history ... WHERE NOT EXISTS (...)
InsertHistory(h, sid, c, p) ==
    IF HistoryExists(h, sid, p.id, p.price, p.card_price) THEN h
    ELSE Append(h, [store_id |-> sid, product_id |-> p.id, price |-> p.price,
                    card_price |-> p.card_price, inserted_at |-> c.time])

\* the (snapshot, product) pairs in the order of the two nested for loops
RECURSIVE Observations(_)
Observations(catalogs) ==
    IF catalogs = <<>> THEN <<>>
    ELSE LET c == Head(catalogs)
         IN  [i \in DOMAIN c.info.products |-> [c |-> c, p |-> c.info.products[i]]]
             \o Observations(Tail(catalogs))

\* the statements of one call, in execution order; the last one is the commit
RECURSIVE ObsStatements(_)
ObsStatements(obs) ==
    IF obs = <<>> THEN <<>>
    ELSE <<[op |-> "product", c |-> Head(obs).c, p |-> Head(obs).p],
           [op |-> "history", c |-> Head(obs).c, p |-> Head(obs).p]>>
         \o ObsStatements(Tail(obs))

\* a call that returns before its transaction when it has no snapshot
StatementsOfSnapshots(catalogs) ==
    IF catalogs = <<>> THEN <<[op |-> "commit"]>>
    ELSE <<[op |-> "store"]>> \o ObsStatements(Observations(catalogs))
             \o <<[op |-> "commit"]>>

Statements(catalogs) ==
    <<[op |-> "store"]>> \o ObsStatements(Observations(catalogs)) \o <<[op |-> "commit"]>>

Execute(db, stmt, si, now) ==
    CASE stmt.op = "store" ->
            [db EXCEPT !.stores = InsertStore(db.stores, si, now)]
      [] stmt.op = "product" ->
            [db EXCEPT !.products = UpsertProduct(db.products, stmt.c, stmt.p)]
      [] stmt.op = "history" ->
            [db EXCEPT !.history = InsertHistory(db.history, si.id, stmt.c, stmt.p)]
      [] OTHER -> db

\* the transaction's view after its first k statements
RECURSIVE RunTx(_, _, _, _, _)
RunTx(db, stmts, k, si, now) ==
    IF k = 0 \/ stmts = <<>> THEN db
    ELSE RunTx(Execute(db, Head(stmts), si, now), Tail(stmts), k - 1, si, now)

\* the failed transaction's statements stay in the tables
RollbackKeepsWork(pre, work) == work

\* a statement's error leaves through `?`: tx is dropped without commit and
\* rusqlite rolls the transaction back
Rollback(pre, work) == pre

\* pyaterochka_insert_data: failAt = 0 when every statement succeeds, else the
\* index of the statement that fails
InsertData(db, si, catalogs, now, failAt) ==
    LET stmts == Statements(catalogs)
        work == RunTx(db, stmts, IF failAt = 0 THEN Len(stmts) ELSE failAt - 1, si, now)
    IN  IF failAt = 0 THEN [db |-> work, ok |-> TRUE]
        ELSE [db |-> Rollback(db, work), ok |-> FALSE]

Db == [stores |-> stores, products |-> products, history |-> history]

(***************************************************************************)
(* Inputs of the store's caller.                                           *)
(***************************************************************************)
StoreIds == {1, 2}
\* chrono timestamps (seconds) carried by the snapshots
Times == {1, 2}
\* (price, card_price): the spec's 100/90 and 95/90
PricePairs == {<<100, 90>>, <<95, 90>>}

\* a decimal digit as a character
Digit(i) == <<"0", "1", "2", "3", "4", "5", "6", "7", "8", "9">>[i + 1]

StoreInfoOf(s) == [id |-> s, address |-> <<"a", Digit(s)>>, city |-> <<"c">>]

ProductInfoOf(i, pp) ==
    [id |-> i, name |-> <<"n", Digit(i)>>, price |-> pp[1], card_price |-> pp[2],
     rating |-> None, rates_count |-> None, image |-> None, property |-> None]

SnapshotOf(c, ps, t) ==
    [info |-> [id |-> <<Digit(c)>>, name |-> <<"g", Digit(c)>>, brand_list |-> <<>>, products |-> ps],
     time |-> t]

\* what the callers of SpecPersist pass: one or two snapshots of one product each
HistStoreInfos == {StoreInfoOf(s) : s \in StoreIds}

HistSnapshots == {SnapshotOf(1, <<ProductInfoOf(1, pp)>>, t) : pp \in PricePairs, t \in Times}

HistCatalogLists == SeqsOfLen(HistSnapshots, 1, MaxCatalogs)

NumObs(catalogs) == Len(Observations(catalogs))

\* the product observations of the calls logged so far
RECURSIVE LoggedObs(_)
LoggedObs(l) == IF l = <<>> THEN 0 ELSE Head(l).nobs + LoggedObs(Tail(l))

(***************************************************************************)
(* main.rs: the configuration.  A config file is a JSON document: Garbage  *)
(* when it is not JSON at all, else an object giving each key of Config a  *)
(* JSON value, or no value when the key is absent.                         *)
(***************************************************************************)
ConfigKeys == {"db_path", "browser_executable", "cookies_store_path",
               "pyaterochka_stores_coord_path", "sleep_millis_for_each_catalog"}

StrKeys == ConfigKeys \ {"sleep_millis_for_each_catalog"}

Garbage == [t |-> "garbage"]
Absent == [t |-> "absent"]
JNull == [t |-> "null"]
JStr(x) == [t |-> "str", s |-> x]
JNum(x) == [t |-> "num", n |-> x]

\* #[derive(Default)]: every option is None
DefaultConfig == [k \in ConfigKeys |-> None]

\* an Option<&str> field: a missing key or null is None, a string is Some, any
\* other JSON value is a type error
StrField(j) ==
    CASE j.t \in {"absent", "null"} -> [ok |-> TRUE, v |-> None]
      [] j.t = "str" -> [ok |-> TRUE, v |-> Some(j.s)]
      [] OTHER -> [ok |-> FALSE, v |-> None]

\* an Option<u64> field
U64Field(j) ==
    CASE j.t \in {"absent", "null"} -> [ok |-> TRUE, v |-> None]
      [] j.t = "num" /\ j.n >= 0 -> [ok |-> TRUE, v |-> Some(j.n)]
      [] OTHER -> [ok |-> FALSE, v |-> None]

Field(k, j) == IF k \in StrKeys THEN StrField(j) ELSE U64Field(j)

\* the parse that rejects nothing: a field it cannot read is left out
FromStrLenient(doc) ==
    IF doc.t = "garbage" THEN Some(DefaultConfig)
    ELSE Some([k \in ConfigKeys |-> Field(k, doc.o[k]).v])

\* serde_json::from_str::<Config>(v).ok()
FromStr(doc) ==
    IF doc.t = "garbage" THEN None
    ELSE IF \E k \in ConfigKeys : ~Field(k, doc.o[k]).ok THEN None
    ELSE Some([k \in ConfigKeys |-> Field(k, doc.o[k]).v])

\* args.iter().position(|v| v == "-c"), counted from 0
Position(args, flag) ==
    LET hits == {i \in DOMAIN args : args[i] = flag}
    IN  IF hits = {} THEN None ELSE Some(Min(hits) - 1)

\* args.get(i), counted from 0
Get(args, i) == IF i + 1 \in DOMAIN args THEN Some(args[i + 1]) ELSE None

\* std::fs::read_to_string(v).ok(): the one readable config file is "cfg"
ReadToString(path, text) == IF path = "cfg" THEN text ELSE None

\* main.rs lines 18..24
ConfigOf(args, text) ==
    LET config_flag_pos == Position(args, "-c")
        config_path == IF config_flag_pos = None THEN None
                       ELSE Get(args, config_flag_pos[1] + 1)
        config_json == IF config_path = None THEN None
                       ELSE ReadToString(config_path[1], text)
        parsed == IF config_json = None THEN None ELSE FromStr(config_json[1])
    IN  IF parsed = None THEN DefaultConfig ELSE parsed[1]

UnwrapOr(opt, default) == IF opt = None THEN default ELSE opt[1]

\* db::init: DB_PATH.get_or_init(|| path.unwrap_or("database.sqlite"))
DbInit(cell, path) == IF cell = None THEN Some(UnwrapOr(path, "database.sqlite")) ELSE cell

\* the defaults the options are read with
SleepMillis(cfg) == UnwrapOr(cfg["sleep_millis_for_each_catalog"], 700)
CookiesWritePath(cfg) == UnwrapOr(cfg["cookies_store_path"], "pyaterochka_cookies")
CoordsPath(cfg) == UnwrapOr(cfg["pyaterochka_stores_coord_path"], "pyaterochka_stores_coord.json")

\* main up to the call of start_parsing: the config is loaded, db::init stores
\* the database path and the ParseConfig is built
LoadConfig ==
    /\ main = "config"
    /\ config' = Some(ConfigOf(argv, config_text))
    /\ db_path' = DbInit(db_path, ConfigOf(argv, config_text)["db_path"])
    /\ main' = "parsing"
    /\ UNCHANGED <<dbvars, log, loopvars, taskvars, sigvars, ghostvars, cookievars, pagevars,
                   argv, config_text, exit_status>>

(***************************************************************************)
(* The command lines and config files main is started with.                *)
(***************************************************************************)
Argvs == {<<"x5parser">>, <<"x5parser", "-c">>, <<"x5parser", "-c", "cfg">>,
          <<"x5parser", "-c", "missing">>, <<"x5parser", "cfg", "-c">>}

KeyValues(k) ==
    CASE k = "db_path" -> {Absent, JNull, JStr("my.sqlite"), JNum(5)}
      [] k = "cookies_store_path" -> {Absent, JStr("cookies.json")}
      [] k = "sleep_millis_for_each_catalog" -> {Absent, JNum(100), JStr("fast")}
      [] k = "browser_executable" -> {Absent, JStr("chrome")}
      [] OTHER -> {Absent}

JObject(f) == [t |-> "obj", o |-> f]

ConfigObjects ==
    {JObject(f) : f \in {g \in [ConfigKeys -> UNION {KeyValues(k) : k \in ConfigKeys}] :
                            \A k \in ConfigKeys : g[k] \in KeyValues(k)}}

ConfigTexts == {None} \cup {Some(d) : d \in {Garbage} \cup ConfigObjects}

\* network::Cookie, and the CookieParam cookie_into_param makes of it
CookieOf(name) == [name |-> name, value |-> "v", domain |-> "5ka.ru", path |-> "/"]

CookieIntoParam(c) ==
    [name |-> c.name, value |-> c.value, url |-> None,
     domain |-> Some(c.domain), path |-> Some(c.path)]

\* what get_cookies returns once the home page has been reached, and what a
\* cookie file of an earlier run holds
FreshCookies == {CookieOf("session")}
StaleCookies == {CookieOf("stale")}

CookiePaths == {"pyaterochka_cookies", "cookies.json"}
NoCookieFiles == [p \in CookiePaths |-> None]

\* the config of the crawls: no config file, or one naming a cookie file, which
\* an earlier run may have left behind
WithCookiePath ==
    Some(JObject([k \in ConfigKeys |->
                    IF k = "cookies_store_path" THEN JStr("cookies.json") ELSE Absent]))

CrawlInputs ==
    {[argv |-> <<"x5parser", "-c", "cfg">>, text |-> None, files |-> NoCookieFiles],
     [argv |-> <<"x5parser", "-c", "cfg">>, text |-> WithCookiePath, files |-> NoCookieFiles],
     [argv |-> <<"x5parser", "-c", "cfg">>, text |-> WithCookiePath,
      files |-> [NoCookieFiles EXCEPT !["cookies.json"] = Some(StaleCookies)]]}

ConfigInputs ==
    {[argv |-> a, text |-> t, files |-> NoCookieFiles] : a \in Argvs, t \in ConfigTexts}

\* the process at the first line of main
InitMain(inputs) ==
    /\ \E i \in inputs :
          /\ argv = i.argv
          /\ config_text = i.text
          /\ cookie_files = i.files
    /\ config = None
    /\ db_path = None
    /\ headless_cookies = {}
    /\ main = "config"
    /\ exit_status = None

(***************************************************************************)
(* One call of pyaterochka_insert_data by a caller of the store; every     *)
(* statement of the call succeeds.                                         *)
(***************************************************************************)
PersistCall(storeInfos, catalogLists, nows) ==
    /\ Len(log) < MaxCalls
    /\ LET left == MaxObs - LoggedObs(log)
       IN  \E cs \in catalogLists :
              /\ NumObs(cs) <= left
              /\ \E si \in storeInfos, now \in nows :
                    LET r == InsertData(Db, si, cs, now, 0)
                    IN  /\ stores' = r.db.stores
                        /\ products' = r.db.products
                        /\ history' = r.db.history
                        /\ log' = Append(log, [store |-> si, catalogs |-> cs,
                                               nobs |-> NumObs(cs), ok |-> r.ok,
                                               pre |-> Db])
    /\ UNCHANGED crawlvars

InitDb ==
    /\ stores = {}
    /\ products = {}
    /\ history = <<>>
    /\ log = <<>>

(***************************************************************************)
(* browser_utils.rs: the wait of open_page for its content element.  Time  *)
(* is counted in whole seconds; one WaitSleep stands for the polls and     *)
(* 15 ms sleeps of wait_for_element that fill one second.                  *)
(***************************************************************************)
DEFAULT_WAIT_PAGE_ELEMENT_DURATION == 15  \* Duration::from_secs(15)
StoreLookupWait == 5                      \* wait: ("pre", Duration::from_secs(5))
CategoryWait == 9                         \* wait: ("pre", Duration::from_secs(9))

\* no open_page call is waiting
NoWait == [given |-> 0, elapsed |-> 0, present |-> FALSE, st |-> "idle"]

\* the durations open_page is given: Duration::ZERO and the two of the crawl
WaitParams == {0, StoreLookupWait, CategoryWait}

\* the given duration is used as it is, zero included
WaitDurationAsGiven(given) == given

\* open_page: wait_duration, the default when the given duration is zero
WaitDuration(given) ==
    IF given = 0 THEN DEFAULT_WAIT_PAGE_ELEMENT_DURATION ELSE given

\* open_page reaches tokio::time::timeout(wait_duration, wait_for_element(..));
\* the element is on the page already or not
WaitStart ==
    /\ wait.st # "polling"
    /\ \E g \in WaitParams, p \in BOOLEAN :
         wait' = [given |-> g, elapsed |-> 0, present |-> p, st |-> "polling"]
    /\ UNCHANGED <<dbvars, log, loopvars, taskvars, sigvars, ghostvars, envvars,
                   pages, visible_url>>

\* wait_for_element: the evaluation of querySelector yields true, the loop
\* ends and the timeout returns Ok(Ok(()))
WaitFound ==
    /\ wait.st = "polling"
    /\ wait.present
    /\ wait' = [wait EXCEPT !.st = "found"]
    /\ UNCHANGED <<dbvars, log, loopvars, taskvars, sigvars, ghostvars, envvars,
                   pages, visible_url>>

\* wait_for_element: tokio::time::sleep(WAIT) between two evaluations, while
\* the deadline of the timeout has not passed
WaitSleep ==
    /\ wait.st = "polling"
    /\ wait.elapsed < WaitDuration(wait.given)
    /\ wait' = [wait EXCEPT !.elapsed = @ + 1]
    /\ UNCHANGED <<dbvars, log, loopvars, taskvars, sigvars, ghostvars, envvars,
                   pages, visible_url>>

\* tokio::time::timeout: the deadline passes before wait_for_element is done,
\* the first ? of open_page returns the Elapsed error
WaitTimeout ==
    /\ wait.st = "polling"
    /\ wait.elapsed = WaitDuration(wait.given)
    /\ wait' = [wait EXCEPT !.st = "timed_out"]
    /\ UNCHANGED <<dbvars, log, loopvars, taskvars, sigvars, ghostvars, envvars,
                   pages, visible_url>>

\* wait_for_element: p.evaluate(..).await? or into_value::<bool>()? is an Err,
\* the second ? of open_page returns it
WaitEvalErr ==
    /\ wait.st = "polling"
    /\ wait' = [wait EXCEPT !.st = "failed"]
    /\ UNCHANGED <<dbvars, log, loopvars, taskvars, sigvars, ghostvars, envvars,
                   pages, visible_url>>

\* the page renders the element
ElementAppears ==
    /\ wait.st = "polling"
    /\ ~wait.present
    /\ wait' = [wait EXCEPT !.present = TRUE]
    /\ UNCHANGED <<dbvars, log, loopvars, taskvars, sigvars, ghostvars, envvars,
                   pages, visible_url>>

InitCrawl ==
    /\ pc = "entry"
    /\ pass = 0
    /\ sn = 0
    /\ stores_set = {}
    /\ store_info = None
    /\ cn = 0
    /\ join_set = [c \in 1..NumCatalogs |-> "idle"]
    /\ joined = <<>>
    /\ browser = "none"
    /\ listener = "unspawned"
    /\ rx = FALSE
    /\ handed = None
    /\ crawls = [s \in StoreIds |-> 0]
    /\ afterSignal = 0
    /\ pages = 0
    /\ visible_url = None
    /\ wait = NoWait

InitPersist == InitDb /\ InitCrawl /\ InitMain({[argv |-> <<"x5parser">>, text |-> None,
                                                  files |-> NoCookieFiles]})

NextPersist == PersistCall(HistStoreInfos, HistCatalogLists, {1})

SpecPersist == InitPersist /\ [][NextPersist]_vars

NextWait ==
    \/ WaitStart
    \/ WaitFound
    \/ WaitSleep
    \/ WaitTimeout
    \/ WaitEvalErr
    \/ ElementAppears

\* the runtime keeps polling the future of open_page and its timer; whether
\* the element appears or an evaluation fails is up to the page
WaitFairness ==
    /\ WF_vars(WaitFound)
    /\ WF_vars(WaitSleep)
    /\ WF_vars(WaitTimeout)

SpecWait == InitPersist /\ [][NextWait]_vars /\ WaitFairness

(***************************************************************************)
(* Persist calls that vary the brand list of the snapshot and the name of  *)
(* its product.                                                            *)
(***************************************************************************)
Brands == {<<"a">>, <<"b">>, <<"a", "b">>}

BrandLists == SeqsOfLen(Brands, 0, 2)

ProductNames == {<<"x", "a", "b">>, <<"b", "a">>, <<"x">>}

BrandSnapshot(bl, name) ==
    [info |-> [id |-> <<Digit(1)>>, name |-> <<"g", Digit(1)>>, brand_list |-> bl,
               products |-> <<[ProductInfoOf(1, <<100, 90>>) EXCEPT !.name = name]>>],
     time |-> 1]

BrandCatalogLists == {<<BrandSnapshot(bl, name)>> : bl \in BrandLists, name \in ProductNames}

PersistBranded ==
    /\ Len(log) < MaxBrandCalls
    /\ PersistCall({StoreInfoOf(1)}, BrandCatalogLists, {1})

NextBrand == PersistBranded

SpecBrand == InitPersist /\ [][NextBrand]_vars

(***************************************************************************)
(* The caller that varies what the site shows of a product: in variant v   *)
(* product i has another name, rating, rates_count, image and property, is *)
(* listed in another category with another brand list, and the snapshot    *)
(* was taken at another time.                                              *)
(***************************************************************************)
Variants == {1, 2}

VariantProduct(i, v) ==
    [ProductInfoOf(i, <<100, 90>>) EXCEPT
        !.name = <<"n", Digit(i), Digit(v)>>,
        !.rating = Some(v),
        !.rates_count = Some(10 * v),
        !.image = IF v = 1 THEN None ELSE Some(<<"i">>),
        !.property = IF v = 1 THEN Some(<<"p">>) ELSE None]

VariantSnapshot(i, v) ==
    [SnapshotOf(v, <<VariantProduct(i, v)>>, v) EXCEPT
        !.info.brand_list = << <<"n", Digit(i), Digit(1)>>, <<Digit(i)>> >>]

ProductCatalogLists ==
    SeqsOfLen({VariantSnapshot(i, v) : i \in {1, 2}, v \in Variants}, 1, MaxCatalogs)

PersistProducts ==
    /\ Len(log) < MaxProductCalls
    /\ PersistCall(HistStoreInfos, ProductCatalogLists, {1})

NextProducts == PersistProducts

SpecProducts == InitPersist /\ [][NextProducts]_vars

(***************************************************************************)
(* The caller that varies what the lookup returns for a store id: in       *)
(* variant v the store has another address and city.  It persists at       *)
(* either time, with no snapshot or with one.                              *)
(***************************************************************************)
StoreVariant(s, v) ==
    [StoreInfoOf(s) EXCEPT !.address = <<"a", Digit(s), Digit(v)>>,
                           !.city = <<"c", Digit(v)>>]

StoreVariants == {StoreVariant(s, v) : s \in StoreIds, v \in Variants}

StoreCatalogLists == {<<>>, <<SnapshotOf(1, <<ProductInfoOf(1, <<100, 90>>)>>, 1)>>}

PersistStores == PersistCall(StoreVariants, StoreCatalogLists, Times)

NextStores == PersistStores

SpecStores == InitPersist /\ [][NextStores]_vars

(***************************************************************************)
(* main's loading of the configuration, over every command line and config *)
(* file of ConfigInputs.                                                   *)
(***************************************************************************)
InitConfig == InitDb /\ InitCrawl /\ InitMain(ConfigInputs)

NextConfig == LoadConfig

SpecConfig == InitConfig /\ [][NextConfig]_vars

(***************************************************************************)
(* parser/pyaterochka.rs: start_parsing.                                   *)
(***************************************************************************)
Categories == 1..NumCatalogs

\* chrono::Utc::now().timestamp(): the model's clock ticks once per pass
Now == pass

\* what a category page decodes to: category c lists product c at 100/90
CrawlSnapshot(c, t) == SnapshotOf(c, <<ProductInfoOf(c, <<100, 90>>)>>, t)

\* where start_parsing stands once it has returned Err, or has panicked
ReturnedErr == {"returned_err_refresh", "returned_err_start", "returned_err_text",
                "returned_err_persist"}
Panicked == {"panicked_refresh", "panicked_launch", "panicked"}

Returned == {"returned_ok"} \cup ReturnedErr \cup Panicked

NoTasks == [c \in Categories |-> "idle"]
ZeroPerStore == [s \in StoreIds |-> 0]

(***************************************************************************)
(* start_parsing before its loop: the session refresh in a visible         *)
(* browser, the launch of the headless browser and of the Ctrl+C listener, *)
(* the seeding of the headless browser's cookies and the coordinates.      *)
(***************************************************************************)
startvars == <<pass, sn, stores_set, store_info, cn, taskvars, rx, ghostvars, mainvars>>

\* a failed step of the refresh is passed over
RefreshErrIgnored == "launch"

\* pyaterochka_update_cookies(...).await?: where an Err of the refresh leaves
\* start_parsing
RefreshErr == "returned_err_refresh"

\* bu::launch_browser(executable, HeadlessMode::False).await?; building the
\* browser config is .expect()ed
RefreshLaunch ==
    /\ main = "parsing"
    /\ pc = "entry"
    /\ pc' \in {"seed", RefreshErr, "panicked_refresh"}
    /\ UNCHANGED <<dbvars, log, startvars, pagevars, browser, listener, cookievars>>

\* if let Some(path) = cookies_store_path { set_cookies_from_path(&b, path).await? }
RefreshSeed ==
    /\ pc = "seed"
    /\ LET path == config[1]["cookies_store_path"]
       IN  IF path = None \/ cookie_files[UnwrapOr(path, "cookies.json")] = None
           THEN pc' = "navigate"
           ELSE pc' \in {"navigate", RefreshErr}
    /\ UNCHANGED <<dbvars, log, startvars, pagevars, browser, listener, cookievars>>

\* what page.url() of the refresh's page can yield once the home page was
\* requested: no URL, the home page URL or the URL of the challenge page
VisibleUrls == {None, Some("home"), Some("challenge")}

\* open_page(HOME_PAGE_URL) without a wait and the 5 s sleep
RefreshNavigate ==
    /\ pc = "navigate"
    /\ \/ pc' = "poll" /\ visible_url' \in VisibleUrls
       \/ pc' = RefreshErr /\ UNCHANGED visible_url
    /\ UNCHANGED <<dbvars, log, startvars, pages, wait, browser, listener, cookievars>>

\* while let Some(url) = page.url().await? { if url == HOME_PAGE_URL { break } .. }:
\* one evaluation of the loop condition and of the if
RefreshPoll ==
    /\ pc = "poll"
    /\ \/ pc' = RefreshErr
       \/ pc' = IF visible_url \in {None, Some("home")} THEN "save" ELSE "poll_sleep"
    /\ UNCHANGED <<dbvars, log, startvars, pagevars, browser, listener, cookievars>>

\* tokio::time::sleep(Duration::from_secs(1)) in the body of the polling loop
RefreshPollSleep ==
    /\ pc = "poll_sleep"
    /\ pc' = "poll"
    /\ UNCHANGED <<dbvars, log, startvars, pagevars, browser, listener, cookievars>>

\* the challenge is solved and the site redirects the page to the home page
ChallengePasses ==
    /\ pc \in {"poll", "poll_sleep"}
    /\ visible_url = Some("challenge")
    /\ visible_url' = Some("home")
    /\ UNCHANGED <<dbvars, log, loopvars, taskvars, sigvars, ghostvars, envvars, pages, wait>>

\* b.get_cookies(), to_string_pretty, tokio::fs::write to the cookie file,
\* page.close and close_browser of the visible browser
RefreshSave ==
    /\ pc = "save"
    /\ \/ /\ pc' = RefreshErr
          /\ UNCHANGED cookie_files
       \/ /\ cookie_files' = [cookie_files EXCEPT ![CookiesWritePath(config[1])] =
                                                      Some(FreshCookies)]
          /\ pc' = "launch"
    /\ visible_url' = None
    /\ UNCHANGED <<dbvars, log, startvars, pages, wait, browser, listener, headless_cookies>>

\* bu::launch_browser(executable, HeadlessMode::True).await?, the oneshot
\* channel and tokio::spawn of the listener
Launch ==
    /\ pc = "launch"
    /\ \/ /\ pc' \in {"returned_err_start", "panicked_launch"}
          /\ UNCHANGED <<browser, listener>>
       \/ /\ browser' = "open"
          /\ listener' = "waiting"
          /\ pc' = "cookies"
    /\ UNCHANGED <<dbvars, log, startvars, pagevars, cookievars>>

\* if let Some(path) = pc.cookies_store_path { set_cookies_from_path(&b, path).await? }
SeedHeadless ==
    /\ pc = "cookies"
    /\ LET path == config[1]["cookies_store_path"]
           file == cookie_files[UnwrapOr(path, "cookies.json")]
       IN  IF path = None \/ file = None
           THEN pc' = "coords" /\ UNCHANGED headless_cookies
           ELSE \/ /\ browser = "open"
                   /\ headless_cookies' = {CookieIntoParam(c) : c \in file[1]}
                   /\ pc' = "coords"
                \/ /\ pc' = "returned_err_start"
                   /\ UNCHANGED headless_cookies
    /\ UNCHANGED <<dbvars, log, startvars, pagevars, browser, listener, cookie_files>>

\* read_pyaterochka_coords(...).await? and the lookup urls
ReadCoords ==
    /\ pc = "coords"
    /\ pc' \in {"top", "returned_err_start"}
    /\ UNCHANGED <<dbvars, log, startvars, pagevars, browser, listener, cookievars>>

(***************************************************************************)
(* main.rs after start_parsing.                                            *)
(***************************************************************************)
mainleaves == <<dbvars, log, loopvars, taskvars, sigvars, ghostvars, cookievars,
                pagevars, argv, config_text, config, db_path>>

\* if let Err(e) = start_parsing(..).await { eprintln!("Error: {e}") }, the
\* 500 ms sleep and Ok(()): the process ends with status 0
MainReturn ==
    /\ main = "parsing"
    /\ pc \in {"returned_ok"} \cup ReturnedErr
    /\ main' = "exited"
    /\ exit_status' = Some(0)
    /\ UNCHANGED mainleaves

\* a panic of start_parsing unwinds through main: the process ends with 101
MainPanic ==
    /\ main = "parsing"
    /\ pc \in Panicked
    /\ main' = "aborted"
    /\ exit_status' = Some(101)
    /\ UNCHANGED mainleaves

\* the for loop takes the next coordinate, or the pass ends and loop starts over
AdvanceCoord ==
    IF sn + 1 < NumCoords
    THEN /\ pc' = "iter"
         /\ sn' = sn + 1
         /\ afterSignal' = IF rx THEN afterSignal + 1 ELSE afterSignal
    ELSE /\ pc' = "top"
         /\ sn' = sn
         /\ UNCHANGED afterSignal

\* loop { if rx.try_recv().is_ok() { return Ok(()) }  let mut stores_set = ...
Top ==
    /\ pc = "top"
    /\ \/ /\ rx
          /\ pc' = "returned_ok"
          /\ UNCHANGED <<pass, sn, stores_set, crawls>>
       \/ /\ ~rx
          /\ pass < MaxPasses
          /\ pass' = pass + 1
          /\ stores_set' = {}
          /\ sn' = 0
          /\ pc' = "iter"
          /\ crawls' = ZeroPerStore
    /\ UNCHANGED <<envvars, pagevars, dbvars, log, store_info, cn, taskvars, sigvars, handed, afterSignal>>

\* cleanup_browser_pages on an open browser with n pages: every listed page
\* is closed and one blank page stays; or b.pages() or new_page is an Err and
\* nothing changes; or set_user_agent is an Err after the blank page was
\* opened; or some page.close() is an Err and its page stays
CleanupPages(n) == {1} \cup {n} \cup {n + 1} \cup 1..(n + 1)

\* open_page on an open browser with n pages, when it returns Err: new_page
\* failed, or the page was opened and set_user_agent, goto or the wait failed
OpenPageErr(n) == {n, n + 1}

\* one iteration begins: let _ = cleanup_browser_pages, then open_page on the
\* store lookup url with a 5 s wait for "pre"; on Err the coordinate is skipped
LookupOpen ==
    /\ pc = "iter"
    /\ store_info' = None
    /\ handed' = None
    /\ \/ /\ browser = "open"
          /\ \E k \in CleanupPages(pages) :
                \/ /\ pages' = k + 1
                   /\ pc' = "read"
                   /\ UNCHANGED <<sn, afterSignal>>
                \/ /\ pages' \in OpenPageErr(k)
                   /\ AdvanceCoord
          /\ pages' <= MaxPages
       \/ /\ browser # "open"
          /\ UNCHANGED pages
          /\ AdvanceCoord
    /\ UNCHANGED <<envvars, visible_url, wait, dbvars, log, pass, stores_set, cn, taskvars,
                   sigvars, crawls>>

\* the dedup that never skips
SeenNever(set, id) == FALSE

\* !stores_set.insert(store_info.id.clone())
SeenBefore(set, id) == id \in set

\* the lookup page decoded to store s
Resolve(s) ==
    /\ store_info' = Some(StoreInfoOf(s))
    /\ stores_set' = stores_set \cup {s}
    /\ IF SeenBefore(stores_set, s)
       THEN /\ AdvanceCoord
            /\ UNCHANGED <<cn, taskvars, crawls>>
       ELSE /\ pc' = "spawn"
            /\ cn' = 0
            /\ join_set' = NoTasks
            /\ joined' = <<>>
            /\ crawls' = [crawls EXCEPT ![s] = @ + 1]
            /\ UNCHANGED <<sn, afterSignal>>

\* let _ = page.close().await on an open browser with n pages: the page is
\* closed, or the Err is discarded and the page stays
PageClose(n) == {n - 1, n}

\* find_element("pre").unwrap(), inner_text().await?, serde_json::from_str
\* (on Err the coordinate is skipped with the page left open), page.close,
\* the dedup on stores_set and JoinSet::new
LookupRead ==
    /\ pc = "read"
    /\ \/ /\ pc' = "panicked"
          /\ UNCHANGED <<sn, stores_set, store_info, cn, taskvars, crawls, afterSignal, pages>>
       \/ /\ pc' = "returned_err_text"
          /\ UNCHANGED <<sn, stores_set, store_info, cn, taskvars, crawls, afterSignal, pages>>
       \/ /\ AdvanceCoord
          /\ UNCHANGED <<stores_set, store_info, cn, taskvars, crawls, pages>>
       \/ /\ browser = "open"
          /\ pages' \in PageClose(pages)
          /\ \E s \in StoreIds : Resolve(s)
    /\ UNCHANGED <<envvars, visible_url, wait, dbvars, log, pass, sigvars, handed>>

\* the category list walked from its end
NextCategoryReversed(n) == NumCatalogs - n

\* MAIN_CATALOG_LIST.iter().enumerate(): the category launched after n launches
NextCategory(n) == n + 1

\* join_set.spawn(...) of the next category, then the inter-launch sleep
Spawn ==
    /\ pc = "spawn"
    /\ cn < NumCatalogs
    /\ join_set' = [join_set EXCEPT ![NextCategory(cn)] = "launched"]
    /\ cn' = cn + 1
    /\ pc' = IF cn + 1 = NumCatalogs THEN "join" ELSE "spawn"
    /\ UNCHANGED <<envvars, pagevars, dbvars, log, pass, sn, stores_set, store_info, joined, sigvars, ghostvars>>

\* a step taken from whatever state the task is in
TaskStepFromAny(c, from, to) ==
    /\ browser = "open"
    /\ join_set' = [join_set EXCEPT ![c] = to]

TaskStep(c, from, to) ==
    /\ join_set[c] = from
    /\ browser = "open"
    /\ join_set' = [join_set EXCEPT ![c] = to]

\* the task builds its url and open_page creates the page and starts page.goto
TaskNavigate(c) ==
    /\ TaskStep(c, "launched", "navigating")
    /\ pages < MaxPages
    /\ pages' = pages + 1
    /\ UNCHANGED <<envvars, visible_url, wait, dbvars, log, loopvars, joined, sigvars,
                   ghostvars>>

\* page.goto returned; the task waits up to 9 s for "pre"
TaskLoad(c) ==
    /\ TaskStep(c, "navigating", "waiting")
    /\ UNCHANGED <<envvars, pagevars, dbvars, log, loopvars, joined, sigvars, ghostvars>>

\* the content appeared and decoded, let _ = page.close(): the task ends with
\* Ok(result)
TaskParse(c) ==
    /\ TaskStep(c, "waiting", "parsed")
    /\ joined' = Append(joined, [cat |-> c, ok |-> TRUE,
                                 result |-> Some(CrawlSnapshot(c, Now))])
    /\ pages' \in PageClose(pages)
    /\ UNCHANGED <<envvars, visible_url, wait, dbvars, log, loopvars, sigvars, ghostvars>>

\* a `?` of the task returns Err: page creation, navigation, the wait's timeout,
\* find_element, inner_text or the decoding failed; a page the task had opened
\* stays open
TaskFail(c) ==
    /\ join_set[c] \in {"launched", "navigating", "waiting"}
    /\ join_set' = [join_set EXCEPT ![c] = "failed"]
    /\ joined' = Append(joined, [cat |-> c, ok |-> FALSE, result |-> None])
    /\ IF join_set[c] = "launched" /\ browser = "open"
       THEN pages' \in OpenPageErr(pages) /\ pages' <= MaxPages
       ELSE UNCHANGED pages
    /\ UNCHANGED <<envvars, visible_url, wait, dbvars, log, loopvars, sigvars, ghostvars>>

\* a join that returns at the first failed task, without its siblings
JoinUntilFirstError(js) ==
    \/ \A c \in DOMAIN js : js[c] \in {"parsed", "failed"}
    \/ \E c \in DOMAIN js : js[c] = "failed"

\* join_set.join_all().await returns once every task of the set has finished
JoinAllReady(js) == \A c \in DOMAIN js : js[c] \in {"parsed", "failed"}

\* .into_iter().filter(Result::is_ok).map(Result::unwrap).collect()
OkResults(results) ==
    LET oks == SelectSeq(results, LAMBDA r : r.ok)
    IN  [i \in DOMAIN oks |-> oks[i].result[1]]

\* join_all, the collection of the successful snapshots and
\* db::pyaterochka_insert_data(&store_info, &catalogs)?
JoinPersist ==
    /\ pc = "join"
    /\ JoinAllReady(join_set)
    /\ LET catalogs == OkResults(joined)
       IN  \E failAt \in 0..Len(Statements(catalogs)) :
              LET r == InsertData(Db, store_info[1], catalogs, Now, failAt)
              IN  /\ stores' = r.db.stores
                  /\ products' = r.db.products
                  /\ history' = r.db.history
                  /\ handed' = Some([store |-> store_info[1], catalogs |-> catalogs,
                                     failAt |-> failAt, ok |-> r.ok, pre |-> Db])
                  /\ IF r.ok THEN AdvanceCoord
                     ELSE pc' = "returned_err_persist" /\ UNCHANGED <<sn, afterSignal>>
    /\ UNCHANGED <<envvars, pagevars, log, pass, stores_set, store_info, cn, taskvars, sigvars, crawls>>

\* tokio::signal::ctrl_c().await completes in the listener task
CtrlC ==
    /\ main \notin {"exited", "aborted"}
    /\ listener = "waiting"
    /\ listener' = "closing"
    /\ UNCHANGED <<envvars, pagevars, dbvars, log, loopvars, taskvars, browser, rx, ghostvars>>

\* bu::close_browser(browser_ref).await
ListenerClose ==
    /\ main \notin {"exited", "aborted"}
    /\ listener = "closing"
    /\ browser' = "closed"
    /\ listener' = "closed"
    /\ pages' = 0
    /\ UNCHANGED <<envvars, visible_url, wait, dbvars, log, loopvars, taskvars, rx, ghostvars>>

\* let _ = tx.send(())
ListenerSend ==
    /\ main \notin {"exited", "aborted"}
    /\ listener = "closed"
    /\ rx' = TRUE
    /\ listener' = "sent"
    /\ UNCHANGED <<envvars, pagevars, dbvars, log, loopvars, taskvars, browser, ghostvars>>

Init == InitDb /\ InitCrawl /\ InitMain(CrawlInputs)

Next ==
    \/ LoadConfig
    \/ RefreshLaunch
    \/ RefreshSeed
    \/ RefreshNavigate
    \/ RefreshPoll
    \/ RefreshPollSleep
    \/ RefreshSave
    \/ Launch
    \/ SeedHeadless
    \/ ReadCoords
    \/ MainReturn
    \/ MainPanic
    \/ Top
    \/ LookupOpen
    \/ LookupRead
    \/ Spawn
    \/ \E c \in Categories : TaskNavigate(c)
    \/ \E c \in Categories : TaskLoad(c)
    \/ \E c \in Categories : TaskParse(c)
    \/ \E c \in Categories : TaskFail(c)
    \/ JoinPersist
    \/ CtrlC
    \/ ListenerClose
    \/ ListenerSend
    \/ ChallengePasses

Spec == Init /\ [][Next]_vars

\* the steps main and start_parsing take themselves, apart from the spawned tasks
LoopNext ==
    \/ LoadConfig
    \/ RefreshLaunch
    \/ RefreshSeed
    \/ RefreshNavigate
    \/ RefreshPoll
    \/ RefreshPollSleep
    \/ RefreshSave
    \/ Launch
    \/ SeedHeadless
    \/ ReadCoords
    \/ MainReturn
    \/ MainPanic
    \/ Top
    \/ LookupOpen
    \/ LookupRead
    \/ Spawn
    \/ JoinPersist

\* the tokio runtime keeps polling every task that can run: main, the listener
\* once the signal has arrived, and each category task, whose waits are timed
Fairness ==
    /\ WF_vars(LoopNext)
    /\ WF_vars(ListenerClose \/ ListenerSend)
    /\ \A c \in Categories :
          WF_vars(TaskNavigate(c) \/ TaskLoad(c) \/ TaskParse(c) \/ TaskFail(c))

SpecLive == Init /\ [][Next]_vars /\ Fairness

(***************************************************************************)
(* The price-history claims, over the calls logged by SpecPersist.         *)
(***************************************************************************)
PairRows(h, sid, pid) ==
    SelectSeq(h, LAMBDA r : r.store_id = sid /\ r.product_id = pid)

PriceOf(r) == <<r.price, r.card_price>>

\* the database after the k-th logged call
Post(k) == IF k < Len(log) THEN log[k + 1].pre ELSE Db

\* the number of price-history rows the k-th logged call appended
Appended(k) == Len(Post(k).history) - Len(log[k].pre.history)

\* the k-th logged call committed and carried exactly one product observation
SingleObs(k) == log[k].ok /\ NumObs(log[k].catalogs) = 1

ObsOf(k) == Observations(log[k].catalogs)[1]

LoggedProductIds(k) ==
    {Observations(log[k].catalogs)[i].p.id : i \in 1..NumObs(log[k].catalogs)}

\* C1: for every (store_id, product_id) pair, the price-history rows of the pair
\* taken in insertion order never hold two adjacent rows with the same
\* (price, card_price).
C1_NoAdjacentEqualRows ==
    \A i \in DOMAIN history, j \in DOMAIN history :
        ( /\ i < j
          /\ history[i].store_id = history[j].store_id
          /\ history[i].product_id = history[j].product_id
          /\ \A m \in (i + 1)..(j - 1) :
                ~( history[m].store_id = history[i].store_id
                   /\ history[m].product_id = history[i].product_id) )
        => PriceOf(history[i]) # PriceOf(history[j])

\* C2: persisting one new observation appends no row when its (price, card_price)
\* equals that of the most recently recorded row of the pair, exactly one row
\* when it differs from that row, and exactly one row when the pair has no
\* history.
C2_ChangeTriggered ==
    \A k \in DOMAIN log :
        SingleObs(k) =>
            LET rows == PairRows(log[k].pre.history, log[k].store.id, ObsOf(k).p.id)
            IN  IF rows = <<>> THEN Appended(k) = 1
                ELSE IF PriceOf(rows[Len(rows)]) = PriceOf(ObsOf(k).p)
                     THEN Appended(k) = 0
                     ELSE Appended(k) = 1

\* three successive single-observation persists of one pair, starting at call k,
\* that observe A, then B, then A again, for a pair without history
Oscillates(k) ==
    /\ k + 2 <= Len(log)
    /\ \A m \in k..(k + 2) :
          /\ SingleObs(m)
          /\ log[m].store.id = log[k].store.id
          /\ ObsOf(m).p.id = ObsOf(k).p.id
    /\ PairRows(log[k].pre.history, log[k].store.id, ObsOf(k).p.id) = <<>>
    /\ PriceOf(ObsOf(k).p) # PriceOf(ObsOf(k + 1).p)
    /\ PriceOf(ObsOf(k + 2).p) = PriceOf(ObsOf(k).p)

\* C3: three successive persists of one pair observing A, then B, then A append
\* three history rows in total, whatever their observation timestamps are.
C3_OscillationRecorded ==
    \A k \in DOMAIN log :
        Oscillates(k) => Appended(k) + Appended(k + 1) + Appended(k + 2) = 3

\* calls k and k+1 committed and were given the same (store, snapshots)
Repeated(k) ==
    /\ k + 1 <= Len(log)
    /\ log[k].ok /\ log[k + 1].ok
    /\ log[k].store = log[k + 1].store
    /\ log[k].catalogs = log[k + 1].catalogs

OneRowPerProduct(pt) == \A r1 \in pt, r2 \in pt : r1.id = r2.id => r1 = r2

SameProductRows(k) ==
    /\ Post(k + 1).products = Post(k).products
    /\ OneRowPerProduct(Post(k + 1).products)
    /\ \A i \in LoggedProductIds(k) : \E r \in Post(k + 1).products : r.id = i

SteadyList(k) ==
    LET obs == Observations(log[k].catalogs)
    IN  /\ \A i \in DOMAIN obs, j \in DOMAIN obs :
              obs[i].p.id = obs[j].p.id => PriceOf(obs[i].p) = PriceOf(obs[j].p)
        /\ \A i \in DOMAIN obs :
              LET latest == LatestInsertedAt(log[k].pre.history, log[k].store.id,
                                             obs[i].p.id)
              IN  latest # None => obs[i].c.time >= latest[1]

HandedCall == handed[1]

\* the statements the failed call had executed inside its transaction
WorkOfHanded ==
    RunTx(HandedCall.pre, Statements(HandedCall.catalogs), HandedCall.failAt - 1,
          HandedCall.store, Now)

\* C5: a persist call in which a statement fails returns an error and leaves
\* the stores, products and price-history tables exactly as they were before
\* the call.
C5_FailedPersistRollsBack ==
    (handed # None /\ ~HandedCall.ok) =>
        /\ Db = HandedCall.pre
        /\ pc = "returned_err_persist"

\* a persist failed after statements of its transaction had changed rows, on
\* top of rows committed by an earlier persist
C5_Witness ==
    /\ handed # None
    /\ ~HandedCall.ok
    /\ HandedCall.pre.history # <<>>
    /\ WorkOfHanded.stores # HandedCall.pre.stores
    /\ WorkOfHanded.products # HandedCall.pre.products
    /\ WorkOfHanded.history # HandedCall.pre.history

\* C6: when the persist call for a store fails, the crawl loop goes on to the
\* next coordinate and does not exit.
C6_PersistFailureIsNotFatal ==
    (handed # None /\ ~HandedCall.ok) => pc \notin Returned

\* C7: within one pass the catalog crawl (the launch of the category tasks and
\* the persist) runs at most once for each store id.
C7_OneCrawlPerStorePerPass ==
    \A s \in StoreIds : crawls[s] <= 1

\* a coordinate resolved to a store already crawled in this pass and was skipped
C7_Witness ==
    /\ store_info # None
    /\ pc \in {"iter", "top"}
    /\ handed = None
    /\ crawls[store_info[1].id] = 1
    /\ sn > 0

\* the category of a snapshot, as an index of MAIN_CATALOG_LIST
CategoryOf(snapshot) == CHOOSE c \in Categories : snapshot.info.id = <<Digit(c)>>

\* C8: a failing category task leaves its siblings alone: persist is called only
\* when every launched task of the store has finished, with exactly the
\* snapshots of the tasks that succeeded.
C8_AllTasksJoinedAndSuccessesPersisted ==
    handed # None =>
        /\ \A c \in Categories : join_set[c] \in {"parsed", "failed"}
        /\ Len(HandedCall.catalogs) = Cardinality({c \in Categories : join_set[c] = "parsed"})
        /\ {CategoryOf(HandedCall.catalogs[i]) : i \in DOMAIN HandedCall.catalogs}
              = {c \in Categories : join_set[c] = "parsed"}

\* the first task failed while its sibling was in flight, the sibling succeeded
\* afterwards and its snapshot was persisted
C8_Witness ==
    /\ handed # None
    /\ HandedCall.ok
    /\ join_set[1] = "failed"
    /\ join_set[2] = "parsed"
    /\ joined[1].cat = 1
    /\ Len(HandedCall.catalogs) = 1
    /\ history # <<>>

\* C9: the successful snapshots are handed to persist in task launch order (the
\* order of MAIN_CATALOG_LIST), whatever the completion order was.
C9_PersistedInLaunchOrder ==
    handed # None =>
        \A i \in DOMAIN HandedCall.catalogs, j \in DOMAIN HandedCall.catalogs :
            i < j => CategoryOf(HandedCall.catalogs[i]) < CategoryOf(HandedCall.catalogs[j])

\* C10: once the listener has signalled, the loop begins no further store
\* iteration.
C10_NoIterationAfterSignal == afterSignal = 0

\* C11: the listener closes the shared browser before it signals the loop, and
\* once the interrupt has been received the loop returns and the process exits
\* with status 0, wherever the crawl loop stood.
C11_InterruptLeadsToExit0 ==
    /\ [](rx => browser = "closed")
    /\ (listener = "closing") ~> (exit_status = Some(0))

\* no interrupt has been received by the listener
NoInterrupt == listener \in {"unspawned", "waiting"}

\* C12: an error returned by start_parsing does not terminate the process:
\* without an interrupt signal the process keeps running.
C12_CrawlErrorKeepsProcessRunning ==
    (pc \in ReturnedErr /\ NoInterrupt) => exit_status = None

\* C13: no failure of a store lookup ends the loop or the process: neither the
\* missing content element (the unwrap of find_element) nor the unreadable text
\* (the `?` of inner_text) takes start_parsing out of its loop.
C13_LookupFailureIsRecoverable == pc \notin {"panicked", "returned_err_text"}

\* no headless browser, no listener, no store lookup, no category task and no
\* persist: start_parsing has not got past its session refresh
NothingCrawled ==
    /\ browser = "none"
    /\ listener = "unspawned"
    /\ pass = 0
    /\ join_set = NoTasks
    /\ handed = None
    /\ headless_cookies = {}
    /\ Db = [stores |-> {}, products |-> {}, history |-> <<>>]

\* the refresh ran to its end: the cookie file holds the cookies it obtained
RefreshCompleted == cookie_files[CookiesWritePath(config[1])] = Some(FreshCookies)

\* C14 as claimed: when a step of the session refresh fails, start_parsing
\* returns the error, with no headless browser launched and nothing crawled.
C14_RefreshFailureReturnsError ==
    /\ pc \in {"returned_err_refresh", "panicked_refresh"} =>
          pc = "returned_err_refresh" /\ NothingCrawled
    /\ ~NothingCrawled => RefreshCompleted

\* C14 as amended: when a step of the session refresh fails, start_parsing ends
\* there, by returning the error or, when the visible browser's configuration
\* cannot be built, by panicking, with no headless browser launched and no
\* store lookup, category fetch or persist performed; the headless browser is
\* launched only after the refresh has written the cookie file.
C14_RefreshFailureAbortsStartup ==
    /\ pc \in {"returned_err_refresh", "panicked_refresh"} => NothingCrawled
    /\ ~NothingCrawled => RefreshCompleted

\* the refresh failed after an earlier run's cookie file had been found, and
\* the process has ended without a headless browser
C14_Witness ==
    /\ pc = "returned_err_refresh"
    /\ cookie_files["cookies.json"] = Some(StaleCookies)
    /\ exit_status = Some(0)
    /\ NothingCrawled

\* C15: for every configuration, once the loop has begun its first pass the
\* headless browser holds the cookies the session refresh obtained and wrote.
C15_HeadlessSeededBeforeFirstLookup ==
    pass >= 1 => headless_cookies = {CookieIntoParam(c) : c \in FreshCookies}

(***************************************************************************)
(* The configuration claim, under SpecConfig.                              *)
(***************************************************************************)
FlagMissing == \A i \in DOMAIN argv : argv[i] # "-c"

\* the first -c is the last argument, or names a file that cannot be read
FileUnreadable ==
    /\ ~FlagMissing
    /\ LET i == Min({j \in DOMAIN argv : argv[j] = "-c"})
       IN  \/ i = Len(argv)
           \/ argv[i + 1] # "cfg"
           \/ config_text = None

\* the file is not JSON, or gives a key a value of the wrong type
ContentUnparsable ==
    /\ config_text # None
    /\ \/ config_text[1].t = "garbage"
       \/ /\ config_text[1].t = "obj"
          /\ \E k \in ConfigKeys :
                \/ k \in StrKeys /\ config_text[1].o[k].t = "num"
                \/ k \notin StrKeys /\ config_text[1].o[k].t = "str"

AllDefaults ==
    /\ config = Some([k \in ConfigKeys |-> None])
    /\ db_path = Some("database.sqlite")
    /\ SleepMillis(config[1]) = 700
    /\ CookiesWritePath(config[1]) = "pyaterochka_cookies"
    /\ CoordsPath(config[1]) = "pyaterochka_stores_coord.json"
    /\ config[1]["browser_executable"] = None

\* C16: when the -c flag is missing, the config file cannot be read or its
\* content does not parse, every option takes its default and main goes on to
\* start_parsing without an error.
C16_ConfigFallsBackToDefaults ==
    (main # "config" /\ (FlagMissing \/ FileUnreadable \/ ContentUnparsable)) =>
        /\ AllDefaults
        /\ main = "parsing"
        /\ exit_status = None

\* a readable config file that sets db_path and gives the delay a string was
\* loaded: the whole file is dropped and db_path is the default
C16_Witness ==
    /\ main = "parsing"
    /\ ~FlagMissing
    /\ ~FileUnreadable
    /\ ContentUnparsable
    /\ config_text[1].t = "obj"
    /\ config_text[1].o["db_path"] = JStr("my.sqlite")
    /\ AllDefaults

(***************************************************************************)
(* The brand claim, under SpecBrand.                                       *)
(***************************************************************************)
\* v is name with some characters cut off at its front and at its end
IsSubstring(v, name) ==
    \E a \in 0..Len(name) :
        /\ a + Len(v) <= Len(name)
        /\ \A i \in 1..Len(v) : name[a + i] = v[i]

\* the brand stored for the product of the k-th logged call
StoredBrand(k) == (CHOOSE r \in Post(k).products : r.id = ObsOf(k).p.id).brand

\* C17: the brand stored for a persisted product is the first element, in list
\* order, of its snapshot's brand list that is a substring of the product name,
\* and is NULL exactly when no element of the list is a substring of the name.
C17_BrandIsFirstSubstringMatch ==
    \A k \in DOMAIN log :
        LET bl == ObsOf(k).c.info.brand_list
            name == ObsOf(k).p.name
            hits == {i \in DOMAIN bl : IsSubstring(bl[i], name)}
        IN  /\ (StoredBrand(k) = None) <=> (hits = {})
            /\ hits # {} =>
                  \E i \in hits : /\ \A j \in hits : i <= j
                                  /\ StoredBrand(k) = Some(bl[i])

\* a product first stored without a brand was persisted again from a snapshot
\* whose brand list holds two substrings of its name, neither at the front of
\* the name, and got the first of them in list order
C17_Witness ==
    /\ Len(log) = 2
    /\ StoredBrand(1) = None
    /\ ObsOf(2).c.info.brand_list = << <<"b">>, <<"a">> >>
    /\ ObsOf(2).p.name = <<"x", "a", "b">>
    /\ StoredBrand(2) = Some(<<"b">>)

(***************************************************************************)
(* The task claims, under Spec.                                            *)
(***************************************************************************)
InFlight(c) == join_set[c] \in {"launched", "navigating", "waiting"}

\* a step that invokes a context-level operation on the headless browser: the
\* listener's close_browser, cleanup_browser_pages at the head of an iteration,
\* or set_cookies
ContextOpStep ==
    \/ browser = "open" /\ browser' = "closed"
    \/ pc = "iter" /\ pc' # "iter"
    \/ pc = "cookies" /\ headless_cookies' # headless_cookies

\* C18: no context-level operation on the shared browser is invoked while a
\* category task is in flight.
C18_NoContextOpDuringTasks ==
    [][ContextOpStep => \A c \in Categories : ~InFlight(c)]_vars

\* the categories whose task is launched by the step
LaunchedByStep == {c \in Categories : join_set[c] = "idle" /\ join_set'[c] # "idle"}

\* C19: the category tasks of a store are launched in the order of the
\* category list, one per launch step, and the launcher never waits for a
\* launched task: whatever the earlier tasks are doing, the next launch can be
\* made.
C19_LaunchedInListOrderWithoutWaiting ==
    /\ [](\A c \in Categories : (join_set[c] # "idle") <=> (c <= cn))
    /\ []((pc = "spawn") => ENABLED Spawn)
    /\ [][/\ Cardinality(LaunchedByStep) <= 1
          /\ LaunchedByStep # {} => pc = "spawn" /\ LaunchedByStep = {cn + 1}]_vars

\* the second task has just been launched while the first is still waiting for
\* its content
C19_Witness ==
    /\ join_set[1] = "waiting"
    /\ join_set[2] = "launched"
    /\ pc = "join"

\* the moves of one category task
TaskEdge(a, b) ==
    \/ a = b
    \/ <<a, b>> \in {<<"idle", "launched">>, <<"launched", "navigating">>,
                      <<"navigating", "waiting">>, <<"waiting", "parsed">>}
    \/ a \in {"launched", "navigating", "waiting"} /\ b = "failed"

\* the catalog crawl of a store not yet crawled in this pass begins
NewCrawl == \E s \in StoreIds : crawls[s] = 0 /\ crawls'[s] = 1

\* C20: a category task moves along Launched, Navigating, WaitingForContent
\* and ends Parsed or Failed, which it never leaves; a crawled store gets one
\* task per category, and a store's categories are not launched again in the
\* pass.
C20_TaskStateMachine ==
    /\ [][\/ \A c \in Categories : TaskEdge(join_set[c], join_set'[c])
          \/ join_set' = NoTasks /\ NewCrawl]_vars
    /\ [](pc = "join" => cn = NumCatalogs /\ \A c \in Categories : join_set[c] # "idle")
    /\ [](\A s \in StoreIds : crawls[s] <= 1)

\* a pass has ended in which the first category of the one crawled store
\* failed and was left failed while the second was parsed and persisted
C20_Witness ==
    /\ pc = "top"
    /\ pass >= 1
    /\ sn = NumCoords - 1
    /\ join_set = <<"failed", "parsed">>
    /\ crawls = <<1, 0>>
    /\ Len(history) = 1


(***************************************************************************)
(* C21: every wait of open_page for its content element is bounded: it     *)
(* never lasts longer than the given duration (5 s for the store lookup,   *)
(* 9 s for a category fetch), or than 15 s when the given duration is      *)
(* zero; the timeout error is returned exactly when that bound is reached  *)
(* without the element; and a wait that has begun always ends.             *)
(***************************************************************************)
WaitBound(given) == IF given = 0 THEN 15 ELSE given

C21_WaitIsBounded ==
    /\ [](wait.elapsed <= WaitBound(wait.given))
    /\ [](wait.st = "timed_out" => wait.elapsed = WaitBound(wait.given))
    /\ [](wait.st = "found" => wait.present)
    /\ (wait.st = "polling") ~> (wait.st \in {"found", "timed_out", "failed"})

\* a wait given the zero duration timed out after the 15 s of the default
\* without the element
C21_Witness ==
    /\ wait.st = "timed_out"
    /\ wait.given = 0
    /\ wait.elapsed = 15
    /\ ~wait.present


(***************************************************************************)
(* C22: the polling of the session refresh for the home page URL is        *)
(* bounded: also when the challenge is stuck and the URL never becomes the *)
(* home page URL, the polling ends and the refresh returns.                *)
(***************************************************************************)
C22_PollingEnds == (pc = "poll") ~> (pc \notin {"poll", "poll_sleep"})

(***************************************************************************)
(* C23: the browser's pages are reset at the start of every store          *)
(* iteration, before the store's category tasks are started, and the       *)
(* number of open pages stays bounded over any number of iterations: the   *)
(* reset leaves one blank page, the lookup adds at most one page to it,    *)
(* and each category task at most one more.                                *)
(***************************************************************************)
LookupOpenStep == pc = "iter" /\ <<pc, sn>>' # <<pc, sn>>

C23_PagesBoundedByReset ==
    /\ [](pages <= 1 + 1 + NumCatalogs)
    /\ [][(LookupOpenStep /\ browser = "open") => pages' \in {1, 1 + 1}]_vars


(***************************************************************************)
(* The product claim, over the calls logged by SpecProducts.               *)
(***************************************************************************)
\* the first element of bl, in list order, that is a substring of name
FirstMatch(bl, name) ==
    LET hits == {i \in DOMAIN bl : IsSubstring(bl[i], name)}
    IN  IF hits = {} THEN None ELSE Some(bl[Min(hits)])

\* the last observation of product id in the processing order of the k-th call
LastObsOf(k, id) ==
    LET obs == Observations(log[k].catalogs)
    IN  obs[Max({i \in DOMAIN obs : obs[i].p.id = id})]

ProductRowsOf(k, id) == {r \in Post(k).products : r.id = id}

\* C24: after a successful persist there is exactly one product row per
\* product id, whichever stores the product was persisted for, and the name,
\* category, brand, rating, rates_count, image, property and updated_at of the
\* row of every product of the call are those of the last occurrence of the
\* product in the processing order of the call's snapshots.
C24_ProductRowIsLastOccurrence ==
    \A k \in DOMAIN log :
        log[k].ok =>
            /\ OneRowPerProduct(Post(k).products)
            /\ \A id \in LoggedProductIds(k) :
                  /\ Cardinality(ProductRowsOf(k, id)) = 1
                  /\ \A r \in ProductRowsOf(k, id) :
                        LET last == LastObsOf(k, id)
                        IN  /\ r.name = last.p.name
                            /\ r.category = last.c.info.name
                            /\ r.brand = FirstMatch(last.c.info.brand_list, last.p.name)
                            /\ r.rating = last.p.rating
                            /\ r.rates_count = last.p.rates_count
                            /\ r.image = last.p.image
                            /\ r.property = last.p.property
                            /\ r.updated_at = last.c.time

\* product 1 was persisted for store 1 in variant 2, then for store 2 from
\* two snapshots, variant 2 first and variant 1 last: its single row carries
\* variant 1 and the older time
C24_Witness ==
    /\ Len(log) = 2
    /\ log[1].store.id = 1
    /\ log[2].store.id = 2
    /\ log[1].catalogs = <<VariantSnapshot(1, 2)>>
    /\ log[2].catalogs = <<VariantSnapshot(1, 2), VariantSnapshot(1, 1)>>
    /\ Cardinality(products) = 1
    /\ \A r \in products :
          /\ r.name = <<"n", "1", "1">>
          /\ r.category = <<"g", "1">>
          /\ r.brand = Some(<<"n", "1", "1">>)
          /\ r.rating = Some(1)
          /\ r.image = None
          /\ r.updated_at = 1


(***************************************************************************)
(* The append-only claim, over the steps of SpecPersist.                   *)
(***************************************************************************)
IsPrefix(a, b) == Len(a) <= Len(b) /\ SubSeq(b, 1, Len(a)) = a

\* C25: the price history is append-only: a persist call deletes no committed
\* history row and changes none of its store_id, product_id, price, card_price
\* and inserted_at, and the committed rows of every (store, product) pair only
\* grow by rows added at the end.
C25_HistoryAppendOnly ==
    [][/\ IsPrefix(history, history')
       /\ \A sid \in StoreIds, pid \in {history[i].product_id : i \in DOMAIN history} :
             IsPrefix(PairRows(history, sid, pid), PairRows(history', sid, pid))]_vars

\* three calls committed four rows for both stores, and the row of the first
\* call is still the first row
C25_Witness ==
    /\ Len(log) = 3
    /\ Len(log[2].pre.history) = 1
    /\ Len(history) = 4
    /\ history[1] = log[2].pre.history[1]
    /\ {history[i].store_id : i \in DOMAIN history} = StoreIds
    /\ Len(PairRows(history, history[1].store_id, history[1].product_id)) >= 2


(***************************************************************************)
(* The store claim, over the calls logged by SpecStores.                   *)
(***************************************************************************)
StoreRowsOf(st, id) == {r \in st : r.id = id}

\* C26: a persist for a store whose id already has a row leaves the row's
\* address, city and inserted_at as they are; a persist for a store id without
\* a row creates exactly one row, with the address and city of the call; and
\* the stores table never holds two rows with the same id.
C26_StoreInsertOrIgnore ==
    \A k \in DOMAIN log :
        log[k].ok =>
            LET pre == log[k].pre.stores
                post == Post(k).stores
                si == log[k].store
            IN  /\ \A s \in StoreIds : Cardinality(StoreRowsOf(post, s)) <= 1
                /\ StoreRowsOf(pre, si.id) # {} => post = pre
                /\ StoreRowsOf(pre, si.id) = {} =>
                      /\ Cardinality(StoreRowsOf(post, si.id)) = 1
                      /\ \A r \in StoreRowsOf(post, si.id) :
                            r.address = si.address /\ r.city = si.city
                      /\ post \ StoreRowsOf(post, si.id) = pre

\* store 1 was persisted at time 2 in variant 1 and then again in variant 2:
\* its single row still has the address, city and time of the first call
C26_Witness ==
    /\ Len(log) = 2
    /\ log[1].store = StoreVariant(1, 1)
    /\ log[2].store = StoreVariant(1, 2)
    /\ stores = {[id |-> 1, address |-> <<"a", "1", "1">>, city |-> <<"c", "1">>,
                  inserted_at |-> 2]}
    /\ history # <<>>


(***************************************************************************)
(* C27: persist is invoked for every newly seen store of a pass after all  *)
(* its category tasks have finished, also when every category fetch        *)
(* failed: the loop leaves the spawning of the tasks only to the join and  *)
(* the join only through the persist call, made for the store with every   *)
(* task ended; and a call with zero snapshots that commits inserts the     *)
(* store row if absent and adds no product or history row.                 *)
(***************************************************************************)
C27_PersistAlsoWithoutSnapshots ==
    /\ [][pc = "spawn" => pc' \in {"spawn", "join"}]_vars
    /\ [][(pc = "join" /\ pc' # "join") =>
             /\ \A c \in Categories : join_set[c] \in {"parsed", "failed"}
             /\ handed' # None
             /\ handed'[1].store = store_info[1]
             /\ Len(handed'[1].catalogs) =
                   Cardinality({c \in Categories : join_set[c] = "parsed"})]_vars
    /\ [](handed # None /\ handed[1].ok /\ handed[1].catalogs = <<>> =>
             LET pre == handed[1].pre
                 id == handed[1].store.id
             IN  /\ products = pre.products
                 /\ history = pre.history
                 /\ Cardinality(StoreRowsOf(stores, id)) = 1
                 /\ stores \ StoreRowsOf(stores, id) = pre.stores \ StoreRowsOf(pre.stores, id)
                 /\ StoreRowsOf(pre.stores, id) # {} => stores = pre.stores)

\* every category task of the second store of the pass failed; its persist
\* committed, added the store's row and left the products and the history
\* of the first store as they were
C27_Witness ==
    /\ handed # None
    /\ handed[1].ok
    /\ handed[1].catalogs = <<>>
    /\ \A c \in Categories : join_set[c] = "failed"
    /\ StoreRowsOf(handed[1].pre.stores, handed[1].store.id) = {}
    /\ Cardinality(stores) = 2
    /\ products # {}
    /\ history # <<>>

====
